---- MODULE Spec2Model ----
(***************************************************************************)
(* Model of the useChat hook (src/src/hooks/useChat.tsx): the transcript,  *)
(* the loading flag, the replaceable responder and system prompt, and the  *)
(* retry/backoff protocol that sendMessage runs around the responder.      *)
(*                                                                         *)
(* React state cells (messages, isLoading, systemPrompt, apiFunction) are  *)
(* modelled as the values held by the state store.  The callbacks the hook *)
(* returns are closures made at render time: callApiWithRetry captures the *)
(* apiFunction and systemPrompt of the render that created it, so the      *)
(* model keeps the values captured by the latest render in `closure` and   *)
(* the values captured by each running send in that send's record.         *)
(***************************************************************************)
EXTENDS Integers, Sequences, FiniteSets, TLC

\* ------------------------------------------------------------------ bounds
\* number of sendMessage calls with non-blank text in one behaviour of Spec
MaxSends == 1
\* number of sendMessage calls with non-blank text in one behaviour of SpecOverlap
MaxOverlap == 2
\* number of millisecond ticks of the clock in one behaviour
MaxNow == 1
\* number of sendMessage calls with blank text in one behaviour
MaxBlank == 1
\* seconds the clock may run in the timed specification
MaxElapsed == 8

\* ------------------------------------------------------- values and inputs
Undefined == "undefined"
callChatApi == "callChatApi"
\* values for which typeof v === 'function'
Functions == {callChatApi, "f1"}
\* what a caller may hand to updateApiFunction
ApiInputs == {"f1", "notFn"}
\* what a caller may hand to setSystemPrompt
PromptInputs == {"p1"}
\* what the responder resolves with when it succeeds on the attempt with this retryCount
ReplyOf(retryCount) ==
  CASE retryCount = 0 -> "reply0"
    [] retryCount = 1 -> "reply1"
    [] retryCount = 2 -> "reply2"
    [] retryCount = 3 -> "reply3"
    [] OTHER -> "replyN"

defaultSystemPrompt == "defaultSystemPrompt"
greetingText == "Hi there! I'm MentalHealthChat, your supportive companion. How are you feeling today?"
degradedReply == "I'm having trouble connecting to my brain right now. Please try again in a moment."
fallbackText == "I'm having trouble responding right now. Please try again in a moment."

\* The texts handed to sendMessage, each with its UTF-16 code units.
CharsOf(text) ==
  CASE text = ""      -> <<>>
    [] text = "  "    -> <<" ", " ">>
    [] text = "\t\n"  -> <<"\t", "\n">>
    [] text = " hi "  -> <<" ", "h", "i", " ">>
InputTexts == {"", "  ", "\t\n", " hi "}

WhiteSpace == {" ", "\t", "\n"}

\* String.prototype.trim on the code units
RECURSIVE TrimStart(_)
TrimStart(cs) ==
  IF cs # <<>> /\ Head(cs) \in WhiteSpace THEN TrimStart(Tail(cs)) ELSE cs

RECURSIVE TrimEnd(_)
TrimEnd(cs) ==
  IF cs # <<>> /\ cs[Len(cs)] \in WhiteSpace
  THEN TrimEnd(SubSeq(cs, 1, Len(cs) - 1))
  ELSE cs

Trim(cs) == TrimEnd(TrimStart(cs))

\* JavaScript truthiness of the option values used by the hook
Truthy(v) == v \notin {Undefined, ""}

\* typeof v === 'function'
TypeofFunction(v) == v \in Functions

\* ------------------------------------------------------------------- state
VARIABLES
  options,       \* the ChatOptions the hook was constructed with
  messages,      \* useState<Message[]>
  isLoading,     \* useState(false)
  systemPrompt,  \* useState(options.systemPrompt || defaultSystemPrompt)
  apiFunction,   \* useState(() => options.apiFunction || callChatApi)
  closure,       \* apiFunction/systemPrompt captured by the callbacks of the latest render
  renderPending, \* apiFunction or systemPrompt was set since the latest render
  sends,         \* the sendMessage invocations with non-blank text, in call order
  now,           \* milliseconds elapsed on the clock read by Date.now()
  nBlank         \* history: sendMessage calls that returned at the blank guard

vars ==
  <<options, messages, isLoading, systemPrompt, apiFunction, closure, renderPending,
    sends, now, nBlank>>

\* Date.now() when the clock shows t
DateNow(t) == 1000 + t

\* The greeting Entry; its id is the string '1', kept as the number it spells.
\* The field `send` is history: the sendMessage call that appended the Entry (0: none).
Greeting(t) ==
  [id |-> 1, text |-> greetingText, isUser |-> FALSE, timestamp |-> DateNow(t), send |-> 0]

\* an Entry of a caller-supplied seed Transcript
SeedEntry ==
  [id |-> 5, text |-> "seed", isUser |-> TRUE, timestamp |-> 0, send |-> 0]

\* An optional array: absent (undefined), or present with its elements.
NoArray == [defined |-> FALSE, value |-> <<>>]
Array(seq) == [defined |-> TRUE, value |-> seq]

\* faulty variant: no greeting is seeded when the option is absent
InitialMessagesMut(opt, t) == IF opt.defined THEN opt.value ELSE <<>>
\* options.initialMessages || [greeting]   (an array, even an empty one, is truthy)
InitialMessages(opt, t) == IF opt.defined THEN opt.value ELSE <<Greeting(t)>>

\* options.systemPrompt || defaultSystemPrompt
InitialSystemPrompt(opt) == IF Truthy(opt) THEN opt ELSE defaultSystemPrompt

\* options.apiFunction || callChatApi
InitialApiFunction(opt) == IF Truthy(opt) THEN opt ELSE callChatApi

\* faulty variant: the effect sets options.apiFunction without looking at it
EffectApiFunctionMut(opt, cur) == opt
\* the mount effect: setApiFunction(() => options.apiFunction) or callChatApi
EffectApiFunction(opt, cur) == IF Truthy(opt) THEN opt ELSE callChatApi

\* the mount effect: if (options.systemPrompt) setSystemPrompt(options.systemPrompt)
EffectSystemPrompt(opt, cur) == IF Truthy(opt) THEN opt ELSE cur

\* The construction-time configurations explored.
OptionSets ==
  { [initialMessages |-> NoArray, systemPrompt |-> Undefined, apiFunction |-> Undefined],
    [initialMessages |-> Array(<<>>), systemPrompt |-> "p0", apiFunction |-> "f1"],
    [initialMessages |-> Array(<<SeedEntry>>), systemPrompt |-> "", apiFunction |-> "notFn"] }

\* faulty variant: systemPrompt is missing from the dependency list
RenderClosureMut(api, prompt, old) == [apiFunction |-> api, systemPrompt |-> old.systemPrompt]
\* the values a render hands to useCallback(..., [apiFunction, systemPrompt])
RenderClosure(api, prompt, old) == [apiFunction |-> api, systemPrompt |-> prompt]

\* The state after construction: the first render and the mount effects have run.
Init ==
  /\ options \in OptionSets
  /\ now = 0
  /\ messages = InitialMessages(options.initialMessages, now)
  /\ isLoading = FALSE
  /\ systemPrompt =
       EffectSystemPrompt(options.systemPrompt, InitialSystemPrompt(options.systemPrompt))
  /\ apiFunction =
       EffectApiFunction(options.apiFunction, InitialApiFunction(options.apiFunction))
  /\ closure = RenderClosure(apiFunction, systemPrompt,
                             [apiFunction |-> Undefined, systemPrompt |-> Undefined])
  /\ renderPending = FALSE
  /\ sends = <<>>
  /\ nBlank = 0

\* ------------------------------------------------------------ the callbacks
\* faulty variant: !text, without trim()
IsBlankMut(text) == text = ""
\* !text.trim()
IsBlank(text) == Trim(CharsOf(text)) = <<>>

\* addMessage: the Message built from Date.now() and new Date()
NewMessage(text, isUser, t, by) ==
  [id |-> DateNow(t), text |-> text, isUser |-> isUser, timestamp |-> DateNow(t), send |-> by]

\* faulty variant: [newMessage, ...prev]
AddMessageMut(prev, m) == <<m>> \o prev
\* faulty variant: setMessages([newMessage])
AddMessageAloneMut(prev, m) == <<m>>
\* faulty variant: setMessages([...messages, newMessage]) with the Transcript the
\* send saw when it started, which ended with its own user Entry
AddMessageSnapshotMut(prev, m) ==
  LET own == {p \in DOMAIN prev : prev[p].send = m.send /\ prev[p].isUser}
  IN IF m.isUser \/ own = {}
     THEN Append(prev, m)
     ELSE Append(SubSeq(prev, 1, CHOOSE p \in own : TRUE), m)
\* addMessage: setMessages(prev => [...prev, newMessage])
AddMessage(prev, m) == Append(prev, m)

\* callApiWithRetry's default maxRetries
maxRetries == 3

\* faulty variant: retryCount <= maxRetries
ShouldRetryMut(retryCount) == retryCount <= maxRetries
\* catch: retryCount < maxRetries
ShouldRetry(retryCount) == retryCount < maxRetries

\* faulty variant: the delay grows linearly
BackoffDelayMut(retryCount) == 1000 * (retryCount + 1)
\* catch: 1000 * Math.pow(2, retryCount)
BackoffDelay(retryCount) == 1000 * 2^retryCount

\* faulty variant: the flag is not raised
LoadingOnSendMut == FALSE
\* sendMessage: setIsLoading(true)
LoadingOnSend == TRUE

\* faulty variant: no finally block
LoadingOnReturnMut(cur) == cur
\* sendMessage: finally { setIsLoading(false) }
LoadingOnReturn(cur) == FALSE

\* faulty variant: the catch block adds the degraded-service reply
CatchTextMut == degradedReply
\* sendMessage: the text of the Entry appended in the catch block
CatchText == fallbackText

\* faulty variant: the reply is dropped for the apology
ResolvedWithMut(reply) == fallbackText
\* callApiWithRetry: what the awaited responder call hands back to sendMessage
ResolvedWith(reply) == reply

\* faulty variant: a retry reads the values of the latest render
RetryClosureMut(s, latest) == latest
\* The apiFunction and systemPrompt a retry reads: callApiWithRetry calls itself,
\* the closure of the render in which the send started, not the latest one.
RetryClosure(s, latest) == [apiFunction |-> s.apiFunction, systemPrompt |-> s.systemPrompt]

\* history: the Entries a step added to the Transcript
Added(old, new) ==
  IF Len(new) > Len(old) THEN SubSeq(new, Len(old) + 1, Len(new)) ELSE <<>>

TextAndOrigin(entries) ==
  [k \in DOMAIN entries |-> [text |-> entries[k].text, isUser |-> entries[k].isUser]]

\* history: the send reads values that are not the ones held by the state
ReadsStale(s) == s.apiFunction # apiFunction \/ s.systemPrompt # systemPrompt

\* faulty variant: no typeof guard, the responder is invoked whatever it is
AttemptMut(s) ==
  [s EXCEPT !.pc = "awaiting",
            !.calls = Append(@, [fn |-> s.apiFunction, message |-> s.text,
                                 systemPrompt |-> s.systemPrompt,
                                 retryCount |-> s.retryCount,
                                 result |-> "pending", reply |-> ""])]
\* callApiWithRetry's try block up to its await, for the send record s
Attempt(s) ==
  IF ~TypeofFunction(s.apiFunction)
  THEN [s EXCEPT !.pc = "resolved", !.response = degradedReply]
  ELSE [s EXCEPT !.pc = "awaiting",
                 !.calls = Append(@, [fn |-> s.apiFunction, message |-> s.text,
                                      systemPrompt |-> s.systemPrompt,
                                      retryCount |-> s.retryCount,
                                      result |-> "pending", reply |-> ""])]

InFlight(s) == s.pc # "done"

\* sendMessage(text), up to its first await; at most `limit` calls with non-blank text
SendMessage(text, limit) ==
  IF IsBlank(text)
  THEN
     /\ nBlank < MaxBlank
     /\ nBlank' = nBlank + 1
     /\ UNCHANGED <<options, messages, isLoading, systemPrompt, apiFunction, closure,
                    renderPending, sends, now>>
  ELSE
     /\ Len(sends) < limit
     /\ LET i == Len(sends) + 1
            others == {j \in DOMAIN sends : InFlight(sends[j])}
            new == [pc |-> "start", text |-> text, retryCount |-> 0, delay |-> 0,
                    timerDue |-> 0,
                    apiFunction |-> closure.apiFunction,
                    systemPrompt |-> closure.systemPrompt,
                    response |-> "", calls |-> <<>>, outcome |-> "pending",
                    loading |-> LoadingOnSend,
                    appended |-> <<>>,
                    overlapped |-> others # {},
                    retriedStale |-> FALSE]
        IN /\ messages' = AddMessage(messages, NewMessage(text, TRUE, now, i))
           /\ isLoading' = LoadingOnSend
           /\ sends' =
                [j \in DOMAIN sends |->
                   IF j \in others THEN [sends[j] EXCEPT !.overlapped = TRUE] ELSE sends[j]]
                \o <<Attempt([new EXCEPT
                                !.appended = TextAndOrigin(Added(messages, messages'))])>>
     /\ UNCHANGED <<options, systemPrompt, apiFunction, closure, renderPending, now, nBlank>>

SetLast(calls, result, reply) ==
  [calls EXCEPT ![Len(calls)] = [@ EXCEPT !.result = result, !.reply = reply]]

\* the responder's promise resolves
ApiResolve(i) ==
  /\ sends[i].pc = "awaiting"
  /\ LET reply == ReplyOf(sends[i].retryCount)
     IN sends' = [sends EXCEPT ![i] = [@ EXCEPT !.pc = "resolved",
                                               !.response = ResolvedWith(reply),
                                               !.calls = SetLast(@, "ok", reply)]]
  /\ UNCHANGED <<options, messages, isLoading, systemPrompt, apiFunction, closure,
                 renderPending, now, nBlank>>

\* the responder throws or its promise rejects: callApiWithRetry's catch block
ApiReject(i) ==
  /\ sends[i].pc = "awaiting"
  /\ sends' = [sends EXCEPT ![i] =
       IF ShouldRetry(sends[i].retryCount)
       THEN [@ EXCEPT !.pc = "backoff", !.delay = BackoffDelay(sends[i].retryCount),
                      !.timerDue = now + BackoffDelay(sends[i].retryCount),
                      !.calls = SetLast(@, "fail", "")]
       ELSE [@ EXCEPT !.pc = "thrown", !.calls = SetLast(@, "fail", "")]]
  /\ UNCHANGED <<options, messages, isLoading, systemPrompt, apiFunction, closure,
                 renderPending, now, nBlank>>

\* the backoff timer fires: callApiWithRetry(userMessage, retryCount + 1, maxRetries)
TimerFires(i) ==
  /\ sends[i].pc = "backoff"
  /\ LET c == RetryClosure(sends[i], closure)
         s == [sends[i] EXCEPT !.retryCount = @ + 1, !.delay = 0, !.timerDue = 0,
                               !.apiFunction = c.apiFunction,
                               !.systemPrompt = c.systemPrompt]
     IN sends' = [sends EXCEPT ![i] =
          Attempt([s EXCEPT !.retriedStale = @ \/ (~renderPending /\ ReadsStale(s))])]
  /\ UNCHANGED <<options, messages, isLoading, systemPrompt, apiFunction, closure,
                 renderPending, now, nBlank>>

\* sendMessage after its await: addMessage(response, false), finally, return
SendContinue(i) ==
  /\ sends[i].pc = "resolved"
  /\ messages' = AddMessage(messages, NewMessage(sends[i].response, FALSE, now, i))
  /\ isLoading' = LoadingOnReturn(isLoading)
  /\ sends' = [sends EXCEPT ![i] =
       [@ EXCEPT !.pc = "done", !.outcome = "returned", !.loading = isLoading',
                 !.appended = @ \o TextAndOrigin(Added(messages, messages'))]]
  /\ UNCHANGED <<options, systemPrompt, apiFunction, closure, renderPending, now, nBlank>>

\* faulty variant: no catch block, the finally block runs and the error escapes
SendCatchMut(i) ==
  /\ sends[i].pc = "thrown"
  /\ isLoading' = LoadingOnReturn(isLoading)
  /\ sends' = [sends EXCEPT ![i] =
       [@ EXCEPT !.pc = "failed", !.outcome = "threw", !.loading = isLoading']]
  /\ UNCHANGED <<options, messages, systemPrompt, apiFunction, closure, renderPending,
                 now, nBlank>>
\* sendMessage's catch block: addMessage(fallback, false), finally, return
SendCatch(i) ==
  /\ sends[i].pc = "thrown"
  /\ messages' = AddMessage(messages, NewMessage(CatchText, FALSE, now, i))
  /\ isLoading' = LoadingOnReturn(isLoading)
  /\ sends' = [sends EXCEPT ![i] =
       [@ EXCEPT !.pc = "done", !.outcome = "returned", !.loading = isLoading',
                 !.appended = @ \o TextAndOrigin(Added(messages, messages'))]]
  /\ UNCHANGED <<options, systemPrompt, apiFunction, closure, renderPending, now, nBlank>>

\* faulty variant: setMessages([])
ClearedMessagesMut(t) == <<>>
\* clearMessages: setMessages([greeting])
ClearedMessages(t) == <<Greeting(t)>>

\* faulty variant: the pending sends are dropped with the Transcript
ClearMessagesMut ==
  /\ messages' = ClearedMessages(now)
  /\ isLoading' = FALSE
  /\ sends' = SelectSeq(sends, LAMBDA s : ~InFlight(s))
  /\ UNCHANGED <<options, systemPrompt, apiFunction, closure, renderPending, now, nBlank>>

ClearMessages ==
  /\ messages' = ClearedMessages(now)
  /\ UNCHANGED <<options, isLoading, systemPrompt, apiFunction, closure, renderPending,
                 sends, now, nBlank>>

\* setSystemPrompt(prompt): the state setter, handed a string
SetSystemPrompt(prompt) ==
  /\ systemPrompt' = prompt
  /\ renderPending' = (renderPending \/ systemPrompt' # systemPrompt)
  /\ UNCHANGED <<options, messages, isLoading, apiFunction, closure, sends, now, nBlank>>

\* faulty variant: no typeof guard
NextApiFunctionMut(cur, new) == new
\* updateApiFunction: the responder after the call
NextApiFunction(cur, new) == IF TypeofFunction(new) THEN new ELSE cur

UpdateApiFunction(new) ==
  /\ apiFunction' = NextApiFunction(apiFunction, new)
  /\ renderPending' = (renderPending \/ apiFunction' # apiFunction)
  /\ UNCHANGED <<options, messages, isLoading, systemPrompt, closure, sends, now, nBlank>>

\* React renders the hook again after apiFunction or systemPrompt was set:
\* useCallback makes new callApiWithRetry and sendMessage closures.
Render ==
  /\ renderPending
  /\ closure' = RenderClosure(apiFunction, systemPrompt, closure)
  /\ renderPending' = FALSE
  /\ UNCHANGED <<options, messages, isLoading, systemPrompt, apiFunction, sends, now, nBlank>>

\* the backoff timer fires, no earlier than the delay handed to setTimeout
TimerFiresDue(i) ==
  /\ sends[i].timerDue <= now
  /\ TimerFires(i)

\* a second passes
Elapse ==
  /\ now < 1000 * MaxElapsed
  /\ now' = now + 1000
  /\ UNCHANGED <<options, messages, isLoading, systemPrompt, apiFunction, closure,
                 renderPending, sends, nBlank>>

\* a millisecond passes
Tick ==
  /\ now < MaxNow
  /\ now' = now + 1
  /\ UNCHANGED <<options, messages, isLoading, systemPrompt, apiFunction, closure,
                 renderPending, sends, nBlank>>

\* The hook's operations and the steps of its pending promises and timers.
\* The clock stands still: Date.now() reads one value throughout, and how long
\* a timer takes is left aside (SpecClock and SpecTimed let the clock run).
Next ==
  \/ \E text \in InputTexts : SendMessage(text, MaxSends)
  \/ \E i \in DOMAIN sends : ApiResolve(i)
  \/ \E i \in DOMAIN sends : ApiReject(i)
  \/ \E i \in DOMAIN sends : TimerFires(i)
  \/ \E i \in DOMAIN sends : SendContinue(i)
  \/ \E i \in DOMAIN sends : SendCatch(i)
  \/ ClearMessages
  \/ \E prompt \in PromptInputs : SetSystemPrompt(prompt)
  \/ \E new \in ApiInputs : UpdateApiFunction(new)
  \/ Render

Spec == Init /\ [][Next]_vars

\* Calls of sendMessage that may overlap, and the steps of their promises and
\* timers, with nothing else called.
NextOverlap ==
  \/ \E text \in {t \in InputTexts : ~IsBlank(t)} : SendMessage(text, MaxOverlap)
  \/ \E i \in DOMAIN sends : ApiResolve(i)
  \/ \E i \in DOMAIN sends : ApiReject(i)
  \/ \E i \in DOMAIN sends : TimerFires(i)
  \/ \E i \in DOMAIN sends : SendContinue(i)
  \/ \E i \in DOMAIN sends : SendCatch(i)
  \/ ClearMessages

SpecOverlap == Init /\ [][NextOverlap]_vars

\* Calls of sendMessage that may overlap, with no clearMessages call.
NextSends ==
  \/ \E text \in {t \in InputTexts : ~IsBlank(t)} : SendMessage(text, MaxOverlap)
  \/ \E i \in DOMAIN sends : ApiResolve(i)
  \/ \E i \in DOMAIN sends : ApiReject(i)
  \/ \E i \in DOMAIN sends : TimerFires(i)
  \/ \E i \in DOMAIN sends : SendContinue(i)
  \/ \E i \in DOMAIN sends : SendCatch(i)

SpecSends == Init /\ [][NextSends]_vars

\* The same, with the clock running between the steps.
NextClock == Next \/ Tick

SpecClock == Init /\ [][NextClock]_vars

\* One sendMessage call and the steps of its promises and timers, with the
\* clock running: a timer fires once its delay has elapsed, or later.
NextTimed ==
  \/ \E text \in {t \in InputTexts : ~IsBlank(t)} : SendMessage(text, MaxSends)
  \/ \E i \in DOMAIN sends : ApiResolve(i)
  \/ \E i \in DOMAIN sends : ApiReject(i)
  \/ \E i \in DOMAIN sends : TimerFiresDue(i)
  \/ \E i \in DOMAIN sends : SendContinue(i)
  \/ \E i \in DOMAIN sends : SendCatch(i)
  \/ Elapse

SpecTimed == Init /\ [][NextTimed]_vars

\* The hook's operations, without the sendMessage calls that return at the
\* blank guard, and the steps of its pending promises and timers.
NextLive ==
  \/ \E text \in {t \in InputTexts : ~IsBlank(t)} : SendMessage(text, MaxSends)
  \/ \E i \in DOMAIN sends : ApiResolve(i)
  \/ \E i \in DOMAIN sends : ApiReject(i)
  \/ \E i \in DOMAIN sends : TimerFires(i)
  \/ \E i \in DOMAIN sends : SendContinue(i)
  \/ \E i \in DOMAIN sends : SendCatch(i)
  \/ ClearMessages
  \/ \E prompt \in PromptInputs : SetSystemPrompt(prompt)
  \/ \E new \in ApiInputs : UpdateApiFunction(new)
  \/ Render

\* What the claims about termination take for granted: every invocation of the
\* responder settles, every backoff timer fires, and the event loop runs the
\* continuation of a settled await. Of these steps of one send at most one is
\* enabled at a time.
Fairness ==
  \A i \in 1..MaxSends :
    WF_vars(i \in DOMAIN sends /\
              (ApiResolve(i) \/ ApiReject(i) \/ TimerFires(i) \/ SendContinue(i) \/ SendCatch(i)))

SpecLive == Init /\ [][NextLive]_vars /\ Fairness

\* ------------------------------------------------------------------ claims
\* the text consists of white space only (or of nothing)
WhitespaceOnly(text) == \A k \in DOMAIN CharsOf(text) : CharsOf(text)[k] \in WhiteSpace

AllFailed(s) == \A k \in DOMAIN s.calls : s.calls[k].result = "fail"

\* C1: a sendMessage call with non-blank text that has run to its end has added
\* exactly one user Entry carrying its text and then exactly one assistant Entry
\* to the Transcript, and the loading flag was false when it returned; until it
\* ends it has added its user Entry alone.
C1_OneUserOneAssistant ==
  \A i \in DOMAIN sends :
    LET s == sends[i] IN
      /\ ~WhitespaceOnly(s.text)
      /\ s.pc # "done" => s.appended = <<[text |-> s.text, isUser |-> TRUE]>>
      /\ s.pc = "done" =>
           /\ Len(s.appended) = 2
           /\ s.appended[1] = [text |-> s.text, isUser |-> TRUE]
           /\ ~s.appended[2].isUser
           /\ s.loading = FALSE

\* C1 witness: a send has ended on the success path after one retry, its two
\* Entries are the last two of the Transcript and the loading flag is false.
C1_Witness ==
  \E i \in DOMAIN sends :
    /\ sends[i].pc = "done"
    /\ sends[i].appended[2].text = "reply1"
    /\ Len(messages) >= 2
    /\ messages[Len(messages) - 1].text = sends[i].text
    /\ messages[Len(messages)].text = "reply1"
    /\ ~isLoading

\* C2: no failure of the responder escapes sendMessage: every call that ends,
\* ends with a normal return, and when the last permitted attempt has failed the
\* assistant Entry it adds carries the fixed apology text.
C2_FailuresAbsorbed ==
  \A i \in DOMAIN sends :
    LET s == sends[i] IN
      /\ s.outcome \in {"pending", "returned"}
      /\ s.pc = "done" => s.outcome = "returned"
      /\ (s.pc = "done" /\ s.calls # <<>> /\ s.calls[Len(s.calls)].result = "fail") =>
           s.appended[Len(s.appended)] = [text |-> fallbackText, isUser |-> FALSE]

\* C2 witness: a send whose every attempt failed has returned, and the apology
\* is the last Entry of the Transcript.
C2_Witness ==
  \E i \in DOMAIN sends :
    /\ sends[i].outcome = "returned"
    /\ sends[i].calls # <<>> /\ AllFailed(sends[i])
    /\ messages # <<>>
    /\ messages[Len(messages)].text = fallbackText
    /\ messages[Len(messages)].send = i

\* C3: one sendMessage call never invokes the responder more than
\* maxRetries + 1 = 4 times; when every invocation fails it invokes it exactly 4
\* times, and the fallback Entry is added only after those 4 failures.
C3_FourAttempts ==
  \A i \in DOMAIN sends :
    LET s == sends[i] IN
      /\ Len(s.calls) <= maxRetries + 1
      /\ Len(s.calls) <= 4
      /\ (s.pc \in {"thrown", "done"} /\ s.calls # <<>> /\ AllFailed(s)) => Len(s.calls) = 4
      /\ (\E k \in DOMAIN s.appended : s.appended[k].text = fallbackText) =>
           (Len(s.calls) = 4 /\ AllFailed(s))

\* C3 witness: a send has ended after four failed invocations and its fallback Entry.
C3_Witness ==
  \E i \in DOMAIN sends :
    /\ sends[i].pc = "done"
    /\ Len(sends[i].calls) = 4
    /\ AllFailed(sends[i])
    /\ sends[i].appended[2].text = fallbackText

\* C4: when the responder fails N-1 times and succeeds on its Nth invocation
\* (N <= 4), the send invokes it exactly N times (nothing is invoked after a
\* success) and the assistant Entry carries the text that Nth invocation returned.
C4_NthAttemptSucceeds ==
  \A i \in DOMAIN sends :
    LET s == sends[i]
        n == Len(s.calls)
    IN /\ \A k \in 1..(n - 1) : s.calls[k].result = "fail"
       /\ (s.pc = "done" /\ n > 0 /\ s.calls[n].result = "ok") =>
            /\ n <= 4
            /\ s.appended[2] = [text |-> s.calls[n].reply, isUser |-> FALSE]
            /\ s.calls[n].reply # fallbackText

\* C4 witness: a send ended after two failures and a success on the third invocation.
C4_Witness ==
  \E i \in DOMAIN sends :
    /\ sends[i].pc = "done"
    /\ Len(sends[i].calls) = 3
    /\ sends[i].calls[3].result = "ok"
    /\ sends[i].appended[2].text = "reply2"

\* C5 as stated: whenever a send is in flight the loading flag is true, for every
\* interleaving of sendMessage calls.
C5_Original ==
  \A i \in DOMAIN sends : InFlight(sends[i]) => isLoading

\* C5 amended: whenever a send is in flight and no other send has been in flight
\* at any time since it started, the loading flag is true.
C5_LoadingWhileAlone ==
  \A i \in DOMAIN sends :
    (InFlight(sends[i]) /\ ~sends[i].overlapped) => isLoading

\* C5 witness: a second send, started after the first returned, waits in backoff.
C5_Witness ==
  /\ Len(sends) = 2
  /\ sends[1].pc = "done"
  /\ sends[2].pc = "backoff"
  /\ ~sends[2].overlapped
  /\ isLoading

FirstSendStarts == Len(sends) = 0 /\ Len(sends') = 1

\* the step is a sendMessage call with non-blank text
SendStarts == Len(sends') = Len(sends) + 1

\* the first attempt of the send started by this step invoked the responder
\* and the system prompt the state holds
FirstAttemptUsesState ==
  LET s == sends'[Len(sends')] IN
    /\ s.calls # <<>>
    /\ s.calls[1].fn = apiFunction
    /\ s.calls[1].systemPrompt = systemPrompt

C8_Original == messages # <<>>

\* the hook was constructed with no seed Transcript or with a non-empty one
SeedAbsentOrNonEmpty ==
  ~options.initialMessages.defined \/ options.initialMessages.value # <<>>

\* C8 amended: when the hook is constructed with no seed Transcript or with a
\* non-empty seed Transcript, the Transcript is non-empty in every reachable state.
C8_NonEmptyTranscript == SeedAbsentOrNonEmpty => messages # <<>>

\* C8 witness: constructed without a seed, the Transcript was cleared after a
\* send ended and holds the greeting alone.
C8_Witness ==
  /\ ~options.initialMessages.defined
  /\ \E i \in DOMAIN sends : sends[i].pc = "done"
  /\ Len(messages) = 1
  /\ messages[1].text = greetingText

\* the positions of the Transcript that hold Entries added by sends
SendEntries == {p \in DOMAIN messages : messages[p].send # 0}

\* C9 as stated: Entries are in sendMessage call order and the reply of a send
\* follows its own user Entry with no Entry of another send between them, for
\* every interleaving.
C9_Original ==
  \A p, q \in SendEntries :
    p < q =>
      /\ messages[p].send <= messages[q].send
      /\ messages[p].send = messages[q].send => (messages[p].isUser /\ ~messages[q].isUser)

\* C9 amended: user Entries are in sendMessage call order and the reply of a
\* send follows that send's own user Entry; an Entry of one send lies before an
\* Entry of an earlier send (so that Entries of different sends interleave) only
\* when both sends overlapped another send in time.
C9_OrderUnlessOverlap ==
  \A p, q \in SendEntries :
    p < q =>
      /\ (messages[p].isUser /\ messages[q].isUser) => messages[p].send < messages[q].send
      /\ messages[p].send = messages[q].send => (messages[p].isUser /\ ~messages[q].isUser)
      /\ messages[p].send > messages[q].send =>
           (sends[messages[p].send].overlapped /\ sends[messages[q].send].overlapped)

\* C9 witness: two overlapping sends have ended, the second before the first.
C9_Witness ==
  /\ Len(messages) >= 4
  /\ LET n == Len(messages) IN
       /\ messages[n - 3].send = 1 /\ messages[n - 3].isUser
       /\ messages[n - 2].send = 2 /\ messages[n - 2].isUser
       /\ messages[n - 1].send = 2 /\ ~messages[n - 1].isUser
       /\ messages[n].send = 1 /\ ~messages[n].isUser

\* C10: a sendMessage call with blank or whitespace-only text changes neither
\* the Transcript, the loading flag, the system prompt nor the responder, and
\* starts no send, so that the responder is not invoked for it.
C10_BlankIsNoOp ==
  /\ [](\A i \in DOMAIN sends : ~WhitespaceOnly(sends[i].text))
  /\ [](\A p \in SendEntries : messages[p].isUser => ~WhitespaceOnly(messages[p].text))
  /\ [][nBlank' # nBlank =>
          UNCHANGED <<messages, isLoading, systemPrompt, apiFunction, closure, sends>>]_vars

\* C10 witness: sendMessage was called with blank text while a send was in flight.
C10_Witness ==
  /\ nBlank > 0
  /\ isLoading
  /\ \E i \in DOMAIN sends : sends[i].pc = "backoff"

\* C11: a clearMessages call, whatever the state and the length of the Transcript
\* it is made in, leaves a Transcript of exactly one Entry, an assistant Entry
\* with the greeting text, and changes neither the loading flag, the system
\* prompt nor the responder; no step other than a clearMessages call or a step
\* of a send changes the Transcript.
C11_ClearResets ==
  [][(ClearMessages \/ (messages' # messages /\ sends' = sends)) =>
       /\ Len(messages') = 1
       /\ messages'[1].text = greetingText
       /\ ~messages'[1].isUser
       /\ messages'[1].send = 0
       /\ UNCHANGED <<isLoading, systemPrompt, apiFunction>>]_vars

\* C11 witness: the Transcript was cleared while a send was waiting in backoff:
\* the user Entry of that send is gone, the greeting alone is left and the
\* loading flag is still true.
C11_Witness ==
  /\ \E i \in DOMAIN sends : sends[i].pc = "backoff"
  /\ Len(messages) = 1
  /\ messages[1].text = greetingText
  /\ isLoading

\* C12: an updateApiFunction call handed a value that is not a function leaves
\* the responder, the Transcript, the loading flag and the system prompt as they
\* were (the call is an ordinary step: nothing is thrown); handed a function, it
\* makes that function the responder. No step makes a non-function the responder.
C12_UpdateGuarded ==
  [][/\ \A new \in ApiInputs :
          UpdateApiFunction(new) =>
            /\ TypeofFunction(new) => apiFunction' = new
            /\ ~TypeofFunction(new) => apiFunction' = apiFunction
            /\ UNCHANGED <<messages, isLoading, systemPrompt>>
     /\ apiFunction' # apiFunction => TypeofFunction(apiFunction')]_vars

\* C12 witness: a hook constructed with a responder that is not a function was
\* handed the function f1, which is now its responder; no render has happened since.
C12_Witness ==
  /\ options.apiFunction = "notFn"
  /\ apiFunction = "f1"
  /\ closure.apiFunction = "notFn"
  /\ renderPending

\* C13: the Entries that are in the Transcript at the same time have pairwise
\* distinct ids, in every reachable state.
C13_DistinctIds ==
  \A p, q \in DOMAIN messages : p # q => messages[p].id # messages[q].id

\* the wait after the failure of attempt k, as the claim lists it
WaitAfter(k) == CASE k = 0 -> 1000 [] k = 1 -> 2000 [] k = 2 -> 4000 [] OTHER -> 0

\* C14: after the failure of attempt k (k = 0, 1, 2) the retry loop sets a timer
\* of exactly 1000 * 2^k milliseconds (1000, 2000, 4000) and starts attempt k+1
\* when it fires, never before that time has elapsed since the failure; it waits
\* neither after the failure of attempt 3 nor after a success. So attempt k never
\* starts before 1000 * (2^k - 1) milliseconds have passed since the send began.
C14_BackoffWaits ==
  [][\A i \in DOMAIN sends :
       LET s == sends[i]
           t == sends'[i]
           k == s.retryCount
       IN /\ (s.pc = "awaiting" /\ t.pc = "backoff") =>
               /\ k \in {0, 1, 2}
               /\ t.calls[Len(t.calls)].result = "fail"
               /\ t.retryCount = k
               /\ t.delay = WaitAfter(k)
               /\ t.delay = 1000 * 2^k
               /\ t.timerDue = now + t.delay
          /\ (s.pc = "backoff" /\ t.pc # "backoff") =>
               /\ now >= s.timerDue
               /\ t.retryCount = k + 1
               /\ t.pc = "awaiting" => Len(t.calls) = Len(s.calls) + 1
          /\ (s.pc = "awaiting" /\ k = 3) => t.pc \in {"awaiting", "resolved", "thrown"}
          /\ t.pc = "backoff" => s.pc \in {"awaiting", "backoff"}
          /\ s.pc = "resolved" => t.pc \in {"resolved", "done"}
          /\ t.pc = "awaiting" => now' >= 1000 * (2^t.retryCount - 1)]_vars

\* C14 witness: attempt 3 is running and the clock shows 7000 milliseconds, the
\* three waits of 1000, 2000 and 4000 milliseconds and nothing more.
C14_Witness ==
  \E i \in DOMAIN sends :
    /\ sends[i].pc = "awaiting"
    /\ sends[i].retryCount = 3
    /\ Len(sends[i].calls) = 4
    /\ now = 7000

\* C15: a sendMessage call made while the responder is not a function gets the
\* degraded-service reply from callApiWithRetry at once: the responder is never
\* invoked, no retry and no backoff wait happens, nothing is thrown, and the
\* assistant Entry the call adds carries that reply, not the apology.
C15_DegradedReply ==
  /\ [][(SendStarts /\ ~TypeofFunction(apiFunction)) =>
          LET s == sends'[Len(sends')] IN
            /\ ~TypeofFunction(s.apiFunction)
            /\ s.pc = "resolved"
            /\ s.response = degradedReply]_vars
  /\ [](\A i \in DOMAIN sends :
          LET s == sends[i] IN
            ~TypeofFunction(s.apiFunction) =>
              /\ s.calls = <<>>
              /\ s.retryCount = 0 /\ s.delay = 0
              /\ s.pc \in {"resolved", "done"}
              /\ s.response = degradedReply
              /\ s.response # fallbackText
              /\ s.pc = "done" =>
                   /\ s.outcome = "returned"
                   /\ s.appended[2] = [text |-> degradedReply, isUser |-> FALSE])

\* C15 witness: the responder is not a function, and a send made in that state
\* has returned after adding the degraded-service reply, without an invocation.
C15_Witness ==
  /\ ~TypeofFunction(apiFunction)
  /\ \E i \in DOMAIN sends :
       /\ sends[i].pc = "done"
       /\ sends[i].calls = <<>>
       /\ messages[Len(messages)].text = degradedReply
       /\ messages[Len(messages)].send = i

\* the send has reached one of its terminal outcomes and has returned
Terminal(s) ==
  /\ s.pc = "done"
  /\ s.outcome = "returned"
  /\ \/ s.calls = <<>>
     \/ s.calls[Len(s.calls)].result = "ok"
     \/ Len(s.calls) = maxRetries + 1 /\ AllFailed(s)

\* C16: when every invocation of the responder settles and every backoff timer
\* fires, every sendMessage call with non-blank text eventually returns, after a
\* success, after the degraded-service reply or after the last permitted attempt
\* failed, whatever else is called meanwhile; and once a send has started, a
\* state is eventually reached where no send is in flight and the loading flag
\* is false.
C16_SendsTerminate ==
  /\ \A i \in 1..MaxSends :
       (Len(sends) >= i) ~> (Len(sends) >= i /\ Terminal(sends[i]))
  /\ (sends # <<>>) ~> ((\A j \in DOMAIN sends : ~InFlight(sends[j])) /\ ~isLoading)

\* C16 witness: a send has returned after its last permitted attempt succeeded,
\* and the loading flag is false.
C16_Witness ==
  \E i \in DOMAIN sends :
    /\ Terminal(sends[i])
    /\ sends[i].retryCount = maxRetries
    /\ sends[i].calls[Len(sends[i].calls)].result = "ok"
    /\ ~isLoading

\* the sequence a is an initial part of the sequence b
IsPrefix(a, b) == Len(a) <= Len(b) /\ SubSeq(b, 1, Len(a)) = a

\* C17: but for clearMessages the Transcript is append-only: every step other
\* than a clearMessages call leaves the Transcript it found as an initial part
\* of the new one, a step that extends it is a step of a send and adds one Entry,
\* and setSystemPrompt and updateApiFunction calls (and renders) leave it as it is.
C17_AppendOnly ==
  [][/\ ~ClearMessages => IsPrefix(messages, messages')
     /\ (~ClearMessages /\ messages' # messages) =>
          /\ Len(messages') = Len(messages) + 1
          /\ sends' # sends
          /\ messages'[Len(messages')].send \in DOMAIN sends'
     /\ \A prompt \in PromptInputs : SetSystemPrompt(prompt) => UNCHANGED messages
     /\ \A new \in ApiInputs : UpdateApiFunction(new) => UNCHANGED messages
     /\ Render => UNCHANGED messages]_vars

\* C17 witness: the system prompt and the responder were replaced and a send has
\* ended; the Transcript still begins with the greeting it was constructed with,
\* followed by the two Entries of the send.
C17_Witness ==
  /\ systemPrompt = "p1"
  /\ apiFunction = "f1"
  /\ options.apiFunction = Undefined
  /\ Len(messages) = 3
  /\ messages[1] = Greeting(0)
  /\ messages[2].isUser /\ messages[2].send = 1
  /\ ~messages[3].isUser /\ messages[3].send = 1

\* the positions of the Transcript that hold the Entries send i added
EntriesOf(i, fromUser) ==
  {p \in DOMAIN messages : messages[p].send = i /\ messages[p].isUser = fromUser}

\* C18: when sendMessage calls overlap and clearMessages is not called, no
\* append is lost: the Transcript holds the Entries it was constructed with, one
\* user Entry of every send started and one assistant Entry of every send that
\* has returned; so once all k sends have returned it holds exactly 2k more
\* Entries than at construction, k user Entries and k assistant Entries.
C18_NoLostAppend ==
  LET before == Len(InitialMessages(options.initialMessages, 0))
      k == Len(sends)
      ended == {i \in DOMAIN sends : ~InFlight(sends[i])}
  IN /\ Len(messages) = before + k + Cardinality(ended)
     /\ \A i \in DOMAIN sends :
          /\ Cardinality(EntriesOf(i, TRUE)) = 1
          /\ Cardinality(EntriesOf(i, FALSE)) = IF i \in ended THEN 1 ELSE 0
     /\ ended = DOMAIN sends =>
          /\ Len(messages) = before + 2 * k
          /\ Cardinality({p \in SendEntries : messages[p].isUser}) = k
          /\ Cardinality({p \in SendEntries : ~messages[p].isUser}) = k

\* C18 witness: two sends that overlapped have both returned, the first one
\* last, and the Transcript holds four Entries more than at construction.
C18_Witness ==
  /\ Len(sends) = 2
  /\ \A i \in DOMAIN sends : ~InFlight(sends[i]) /\ sends[i].overlapped
  /\ Len(messages) = Len(InitialMessages(options.initialMessages, 0)) + 4
  /\ messages[Len(messages)].send = 1

\* the text of the assistant Entry the send s adds when it ends
AssistantText(s) ==
  IF s.calls = <<>> THEN degradedReply
  ELSE IF s.calls[Len(s.calls)].result = "ok" THEN s.calls[Len(s.calls)].reply
  ELSE fallbackText

\* the only send made so far has lost its user Entry to a clearMessages call:
\* the Transcript is the greeting alone, or the greeting and the assistant Entry
\* of that send once it has returned
ClearedInFlight ==
  (Len(sends) = 1 /\ EntriesOf(1, TRUE) = {}) =>
    /\ messages # <<>>
    /\ [text |-> messages[1].text, isUser |-> messages[1].isUser, id |-> messages[1].id]
         = [text |-> greetingText, isUser |-> FALSE, id |-> 1]
    /\ \/ Len(messages) = 1
       \/ /\ Len(messages) = 2
          /\ ~InFlight(sends[1])
          /\ [text |-> messages[2].text, isUser |-> messages[2].isUser, send |-> messages[2].send]
               = [text |-> AssistantText(sends[1]), isUser |-> FALSE, send |-> 1]

\* C19: a clearMessages call made while a send is in flight leaves that send as
\* it is; when the send ends it appends its assistant Entry (reply, degraded
\* reply or apology) to whatever the Transcript then is and sets the loading
\* flag to false; with one send only, the Transcript after a clearMessages call
\* made in flight and the return of the send is [greeting, that assistant Entry].
C19_ClearDoesNotCancel ==
  [][/\ ClearMessages => UNCHANGED <<sends, isLoading>>
     /\ \A i \in DOMAIN sends :
          (InFlight(sends[i]) /\ ~InFlight(sends'[i])) =>
            /\ Len(messages') = Len(messages) + 1
            /\ IsPrefix(messages, messages')
            /\ messages'[Len(messages')].text = AssistantText(sends'[i])
            /\ ~messages'[Len(messages')].isUser
            /\ messages'[Len(messages')].send = i
            /\ ~isLoading'
     /\ ClearedInFlight']_vars

\* C19 witness: a hook constructed with a seed Transcript; its only send failed
\* once, was retried and has returned, and the Transcript, cleared meanwhile, is
\* the greeting followed by the reply of the send.
C19_Witness ==
  /\ options.initialMessages.value # <<>>
  /\ Len(sends) = 1
  /\ sends[1].pc = "done"
  /\ Len(sends[1].calls) = 2
  /\ Len(messages) = 2
  /\ messages[1].text = greetingText
  /\ messages[2].text = "reply1"
  /\ ~isLoading

\* the hook was constructed with no responder or with a function as responder
ResponderAbsentOrFunction ==
  options.apiFunction = Undefined \/ TypeofFunction(options.apiFunction)

\* C20: in a hook constructed with no responder or with a function as
\* responder, the responder held by the state and the one captured by the
\* callbacks are functions in every reachable state, whatever is handed to
\* updateApiFunction, so that no send gets or adds the degraded-service reply.
C20_ResponderStaysInvokable ==
  ResponderAbsentOrFunction =>
    /\ TypeofFunction(apiFunction)
    /\ TypeofFunction(closure.apiFunction)
    /\ \A i \in DOMAIN sends :
         /\ TypeofFunction(sends[i].apiFunction)
         /\ sends[i].response # degradedReply
         /\ sends[i].calls # <<>>
         /\ \A k \in DOMAIN sends[i].calls : TypeofFunction(sends[i].calls[k].fn)
    /\ \A p \in DOMAIN messages : messages[p].text # degradedReply

\* C20 witness: a hook constructed with no responder was handed f1, rendered
\* again, and a send has returned with the reply of f1.
C20_Witness ==
  /\ options.apiFunction = Undefined
  /\ apiFunction = "f1"
  /\ closure.apiFunction = "f1"
  /\ \E i \in DOMAIN sends :
       /\ sends[i].pc = "done"
       /\ sends[i].calls[1].fn = "f1"
       /\ messages[Len(messages)].text = "reply0"

====
